---- MODULE Spec2Model ----
(***************************************************************************)
(* A model of the DialogueManager of src/script.js: the in-memory list of  *)
(* dialogue records (this.dialogues), the localStorage slot 'ai_dialogues', *)
(* the millisecond clock behind Date.now(), the FileReaders in flight, and  *)
(* one action per handler of the class.                                     *)
(*                                                                          *)
(* JavaScript values are records [kind, val]; val is always a sequence:     *)
(*   string    the characters of the text                                   *)
(*   number    its decimal digits                                           *)
(*   null      <<>>                                                         *)
(*   undefined <<>>                                                         *)
(*   array     its elements                                                 *)
(*   object    its own properties, <<key, value>> pairs in insertion order  *)
(* JSON text is a sequence of tokens, produced by JSONstringify and read    *)
(* back by JSONparse.                                                       *)
(***************************************************************************)
EXTENDS Integers, Sequences, FiniteSets, TLC

(***************************************************************************)
(* Bounds of the model.                                                     *)
(***************************************************************************)
MaxLen == 3
MaxTime == 10
MaxReaders == 2

\* Date.now() when the page is opened (two digits are reached at MaxTime).
StartTime == 9

(***************************************************************************)
(* JavaScript values.                                                       *)
(***************************************************************************)
Str(t) == [kind |-> "string", val |-> t]
Num(t) == [kind |-> "number", val |-> t]
Arr(s) == [kind |-> "array", val |-> s]
Obj(m) == [kind |-> "object", val |-> m]
Null == [kind |-> "null", val |-> <<>>]
Undefined == [kind |-> "undefined", val |-> <<>>]

\* typeof v
TypeOf(v) ==
    CASE v.kind = "string" -> "string"
      [] v.kind = "number" -> "number"
      [] v.kind = "undefined" -> "undefined"
      [] OTHER -> "object"

\* The truthiness of v: null, undefined, "" and 0 are falsy.
Truthy(v) ==
    CASE v.kind \in {"null", "undefined"} -> FALSE
      [] v.kind = "string" -> v.val # <<>>
      [] v.kind = "number" -> v.val # <<"0">>
      [] OTHER -> TRUE

\* Reading a property of null or undefined throws a TypeError.
ThrowsOnAccess(v) == v.kind \in {"null", "undefined"}

\* v[k] for a value on which property access does not throw: an own
\* property of an object, undefined for a missing one and for the data
\* properties of the primitives of this model.
Get(v, k) ==
    IF v.kind = "object" /\ \E i \in 1..Len(v.val) : v.val[i][1] = k
    THEN v.val[CHOOSE i \in 1..Len(v.val) : v.val[i][1] = k][2]
    ELSE Undefined

\* Array.isArray(v)
IsArray(v) == v.kind = "array"

\* v.length: the number of elements of an array, of characters of a
\* string, undefined for the other values that do not throw.
LengthIsZero(v) == v.kind \in {"array", "string"} /\ v.val = <<>>

(***************************************************************************)
(* Text.                                                                    *)
(***************************************************************************)
Space == " "

RECURSIVE TrimStart(_)
TrimStart(t) ==
    IF t # <<>> /\ Head(t) = Space THEN TrimStart(Tail(t)) ELSE t

RECURSIVE TrimEnd(_)
TrimEnd(t) ==
    IF t # <<>> /\ t[Len(t)] = Space THEN TrimEnd(SubSeq(t, 1, Len(t) - 1)) ELSE t

\* A trim that takes nothing away.
Trim_none(t) == t

\* String.prototype.trim
Trim(t) == TrimEnd(TrimStart(t))

Digit(d) ==
    CASE d = 0 -> "0" [] d = 1 -> "1" [] d = 2 -> "2" [] d = 3 -> "3"
      [] d = 4 -> "4" [] d = 5 -> "5" [] d = 6 -> "6" [] d = 7 -> "7"
      [] d = 8 -> "8" [] d = 9 -> "9"

\* Number.prototype.toString of a natural number: its decimal digits.
RECURSIVE NumberToString(_)
NumberToString(n) ==
    IF n < 10 THEN <<Digit(n)>> ELSE NumberToString(n \div 10) \o <<Digit(n % 10)>>

MsPerSecond == 1000

\* Date.prototype.toLocaleString('zh-CN') of the clock value t: a text with
\* the resolution of one second.
ToLocaleString(t) == <<"T">> \o NumberToString(t \div MsPerSecond)

(***************************************************************************)
(* JSON.  A text is a sequence of tokens: the punctuation "[", "]", "{",    *)
(* "}", ",", ":", the literal "null", white space "ws", and <<"str", t>>,   *)
(* <<"num", t>> for a string and a number.  Tokens are records [tok, val].  *)
(***************************************************************************)
P(c) == [tok |-> c, val |-> <<>>]
StrTok(t) == [tok |-> "str", val |-> t]
NumTok(t) == [tok |-> "num", val |-> t]

\* The white space JSON.stringify writes before an element at depth d.
Indent(space, d) == IF space = 0 THEN <<>> ELSE <<P("ws")>>

RECURSIVE Stringify(_, _, _)
RECURSIVE StringifyElems(_, _, _, _)
RECURSIVE StringifyMembers(_, _, _, _)

\* The elements of an array from index i on; undefined is written as null.
StringifyElems(s, i, space, d) ==
    IF i > Len(s) THEN <<>>
    ELSE Indent(space, d)
         \o (IF s[i].kind = "undefined" THEN <<P("null")>> ELSE Stringify(s[i], space, d))
         \o (IF i < Len(s) THEN <<P(",")>> ELSE <<>>)
         \o StringifyElems(s, i + 1, space, d)

\* The properties of an object from index i on; a property whose value is
\* undefined is left out.
StringifyMembers(m, i, space, d) ==
    IF i > Len(m) THEN <<>>
    ELSE LET rest == StringifyMembers(m, i + 1, space, d)
         IN IF m[i][2].kind = "undefined" THEN rest
            ELSE Indent(space, d)
                 \o <<StrTok(m[i][1]), P(":")>>
                 \o Stringify(m[i][2], space, d)
                 \o (IF rest # <<>> THEN <<P(",")>> ELSE <<>>)
                 \o rest

Stringify(v, space, d) ==
    CASE v.kind = "string" -> <<StrTok(v.val)>>
      [] v.kind = "number" -> <<NumTok(v.val)>>
      [] v.kind = "null" -> <<P("null")>>
      [] v.kind = "array" ->
           <<P("[")>> \o StringifyElems(v.val, 1, space, d + 1)
           \o (IF v.val # <<>> THEN Indent(space, d) ELSE <<>>) \o <<P("]")>>
      [] v.kind = "object" ->
           LET body == StringifyMembers(v.val, 1, space, d + 1)
           IN <<P("{")>> \o body
              \o (IF body # <<>> THEN Indent(space, d) ELSE <<>>) \o <<P("}")>>
      [] OTHER -> <<>>

\* JSON.stringify(v, null, space)
JSONstringify(v, space) == Stringify(v, space, 0)

RECURSIVE SkipWs(_)
SkipWs(t) == IF t # <<>> /\ Head(t).tok = "ws" THEN SkipWs(Tail(t)) ELSE t

ParseFail == [ok |-> FALSE, value |-> Undefined, rest |-> <<>>]
ParseOk(v, r) == [ok |-> TRUE, value |-> v, rest |-> r]

\* Defining property k of the properties m: a repeated key keeps its place
\* and takes the later value.
SetProp(m, k, v) ==
    IF \E i \in 1..Len(m) : m[i][1] = k
    THEN [i \in 1..Len(m) |-> IF m[i][1] = k THEN <<k, v>> ELSE m[i]]
    ELSE Append(m, <<k, v>>)

RECURSIVE ParseValue(_)
RECURSIVE ParseElems(_, _)
RECURSIVE ParseMembers(_, _)

\* After an element v of an array: s is what follows it, white space skipped.
AfterElem(acc, v, s) ==
    IF s = <<>> THEN ParseFail
    ELSE CASE Head(s).tok = "," -> ParseElems(Tail(s), Append(acc, v))
           [] Head(s).tok = "]" -> ParseOk(Arr(Append(acc, v)), Tail(s))
           [] OTHER -> ParseFail

ElemParsed(acc, r) ==
    IF ~r.ok THEN ParseFail ELSE AfterElem(acc, r.value, SkipWs(r.rest))

\* The elements of an array after "[" or ",": a value, then "," or "]".
ParseElems(t, acc) == ElemParsed(acc, ParseValue(t))

\* After a property of an object: m is the properties so far, s is what
\* follows, white space skipped.
AfterMember(m, s) ==
    IF s = <<>> THEN ParseFail
    ELSE CASE Head(s).tok = "," -> ParseMembers(Tail(s), m)
           [] Head(s).tok = "}" -> ParseOk(Obj(m), Tail(s))
           [] OTHER -> ParseFail

MemberParsed(acc, key, r) ==
    IF ~r.ok THEN ParseFail
    ELSE AfterMember(SetProp(acc, key, r.value), SkipWs(r.rest))

\* After the key of a property: c is what follows it, white space skipped.
AfterKey(acc, key, c) ==
    IF c = <<>> \/ Head(c).tok # ":" THEN ParseFail
    ELSE MemberParsed(acc, key, ParseValue(Tail(c)))

KeyAt(acc, k) ==
    IF k = <<>> \/ Head(k).tok # "str" THEN ParseFail
    ELSE AfterKey(acc, Head(k).val, SkipWs(Tail(k)))

\* The properties of an object after "{" or ",": a key, ":", a value, then
\* "," or "}".
ParseMembers(t, acc) == KeyAt(acc, SkipWs(t))

\* After "[": the closing "]" at once, or the elements.
ArrayAt(s) ==
    IF s # <<>> /\ Head(s).tok = "]" THEN ParseOk(Arr(<<>>), Tail(s)) ELSE ParseElems(s, <<>>)

\* After "{": the closing "}" at once, or the properties.
ObjectAt(s) ==
    IF s # <<>> /\ Head(s).tok = "}" THEN ParseOk(Obj(<<>>), Tail(s)) ELSE ParseMembers(s, <<>>)

ValueAt(s) ==
    IF s = <<>> THEN ParseFail
    ELSE CASE Head(s).tok = "str" -> ParseOk(Str(Head(s).val), Tail(s))
           [] Head(s).tok = "num" -> ParseOk(Num(Head(s).val), Tail(s))
           [] Head(s).tok = "null" -> ParseOk(Null, Tail(s))
           [] Head(s).tok = "[" -> ArrayAt(SkipWs(Tail(s)))
           [] Head(s).tok = "{" -> ObjectAt(SkipWs(Tail(s)))
           [] OTHER -> ParseFail

ParseValue(t) == ValueAt(SkipWs(t))

\* JSON.parse(text): ok is FALSE where it throws a SyntaxError, which is
\* for every text that is not one value followed by white space only.
JSONparse(text) ==
    LET r == ParseValue(text)
    IN IF r.ok /\ SkipWs(r.rest) = <<>>
       THEN [ok |-> TRUE, value |-> r.value]
       ELSE [ok |-> FALSE, value |-> Undefined]

(***************************************************************************)
(* The records of the program and of the files offered for import.         *)
(***************************************************************************)
Kid == <<"id">>
Krole == <<"role">>
Kdialogue == <<"dialogue">>
Kthink == <<"think">>
Ktimestamp == <<"timestamp">>

Questioner == <<"questioner">>
Responder == <<"responder">>

\* The object literal of addDialogue, its properties in source order.
Dialogue(id, role, dialogue, think, timestamp) ==
    Obj(<< <<Kid, Str(id)>>, <<Krole, Str(role)>>, <<Kdialogue, Str(dialogue)>>,
           <<Kthink, Str(think)>>, <<Ktimestamp, Str(timestamp)>> >>)

\* The inputs of addDialogue.
Roles == {Questioner, Responder}
DialogueTexts == {<<>>, <<Space>>, <<Space, "hi", Space>>}
ThinkTexts == {<<"why", Space>>}

\* Records found in import files.
RecA == Dialogue(<<"a">>, Questioner, <<"x">>, <<>>, <<"T">>)
RecB == Dialogue(<<"b">>, Responder, <<"y">>, <<"w">>, <<"T">>)
\* the id of RecA again, with other contents
RecA2 == Dialogue(<<"a">>, Questioner, <<Space>>, <<"w">>, <<"T">>)
RecNoDialogue ==
    Obj(<< <<Kid, Str(<<"c">>)>>, <<Krole, Str(Questioner)>>, <<Ktimestamp, Str(<<"T">>)>> >>)
RecNumberId ==
    Obj(<< <<Kid, Num(<<"7">>)>>, <<Krole, Str(Questioner)>>, <<Kdialogue, Str(<<"x">>)>>,
           <<Ktimestamp, Str(<<"T">>)>> >>)

JsonType == "application/json"

\* localStorage.getItem(this.storageKey): no item, or the text of the item.
NoItem == [present |-> FALSE, text |-> <<>>]
Item(text) == [present |-> TRUE, text |-> text]

\* The values written into the files the user can select.
FileValues ==
    [ ab       |-> Arr(<<RecA, RecB>>),
      aa       |-> Arr(<<RecA, RecA2>>),
      partial  |-> Arr(<<RecB, RecNoDialogue>>),
      numberid |-> Arr(<<RecNumberId>>),
      nullitem |-> Arr(<<Null>>),
      single   |-> RecA,
      empty    |-> Arr(<<>>) ]

\* The files the user can select: name, media type and text.
File(type, text) == [type |-> type, text |-> text]
Files ==
    [ ab       |-> File(JsonType, JSONstringify(FileValues.ab, 2)),
      aa       |-> File(JsonType, JSONstringify(FileValues.aa, 2)),
      partial  |-> File(JsonType, JSONstringify(FileValues.partial, 2)),
      numberid |-> File(JsonType, JSONstringify(FileValues.numberid, 0)),
      nullitem |-> File(JsonType, JSONstringify(FileValues.nullitem, 0)),
      single   |-> File(JsonType, JSONstringify(FileValues.single, 2)),
      empty    |-> File(JsonType, JSONstringify(FileValues.empty, 0)),
      broken   |-> File(JsonType, <<P("["), P("{")>>),
      notes    |-> File("text/plain", JSONstringify(Arr(<<RecA>>), 0)) ]
FileNames == DOMAIN Files

\* JSON.parse(event.target.result) for the text of each file.
FileParsed == [f \in FileNames |-> JSONparse(Files[f].text)]

\* What localStorage can hold under the key when the page is opened: no
\* item, the empty text, a list of records, and texts no version of the
\* program wrote.
StoredItems ==
    { NoItem,
      Item(<<>>),
      Item(JSONstringify(Arr(<<RecB>>), 0)),
      Item(<<P("["), P("{")>>),
      Item(JSONstringify(Null, 0)),
      Item(JSONstringify(Obj(<<>>), 0)),
      Item(JSONstringify(Num(<<"5">>), 0)),
      Item(JSONstringify(Arr(<<Null>>), 0)) }

(***************************************************************************)
(* The state.                                                               *)
(***************************************************************************)
VARIABLES
    page,       \* "loading" before DOMContentLoaded, then "ready" when the
                \* constructor returned and window.dialogueManager is set,
                \* "constructorThrew" when it threw after initEventListeners
    dialogues,  \* this.dialogues, a JavaScript value
    storage,    \* the item 'ai_dialogues' of localStorage
    now,        \* Date.now()
    readers,    \* the number of FileReaders reading a file
    outcome     \* what the last handler did for its caller

vars == <<page, dialogues, storage, now, readers, outcome>>

NoMessage == [text |-> "", type |-> "none"]
Message(text, type) == [text |-> text, type |-> type]

\* op: the handler; threw: it ended in an uncaught exception; message: the
\* last showMessage; saved: "ok" or "failed" after saveDialogues, else
\* "none"; logged: console.error was called; document: the exported text.
Outcome(op, threw, message, saved, logged, document) ==
    [op |-> op, threw |-> threw, message |-> message, saved |-> saved,
     logged |-> logged, document |-> document]

\* The elements of an array value.
Items(v) == v.val

(***************************************************************************)
(* The methods.                                                             *)
(***************************************************************************)
\* loadDialogues: the value returned and whether the catch branch logged.
loadDialogues(st) ==
    IF ~st.present \/ st.text = <<>>
    THEN [value |-> Arr(<<>>), logged |-> FALSE]
    ELSE LET r == JSONparse(st.text)
         IN IF r.ok THEN [value |-> r.value, logged |-> FALSE]
            ELSE [value |-> Arr(<<>>), logged |-> TRUE]

\* The tokens of the stored text of n records of five properties.
TextLen(n) == IF n = 0 THEN 2 ELSE 22 * n + 1

\* The capacity of the localStorage slot, in tokens: every list of the
\* model fits but the longest.
Quota == TextLen(MaxLen - 1)

\* localStorage.setItem throws (QuotaExceededError) for a text over the
\* capacity of the slot.
setItemThrows(text) == Len(text) > Quota

\* A saveDialogues that writes the list as it was before the change.
saveDialogues_stale(d) ==
    LET text == JSONstringify(dialogues, 0)
    IN IF setItemThrows(text)
       THEN [item |-> storage, saved |-> "failed", logged |-> TRUE]
       ELSE [item |-> Item(text), saved |-> "ok", logged |-> FALSE]

\* A saveDialogues that returns without the write.
saveDialogues_skipped(d) == [item |-> storage, saved |-> "none", logged |-> FALSE]

\* saveDialogues: the item after the call and whether the catch branch
\* logged; a failed setItem leaves the item as it was.
saveDialogues(d) ==
    LET text == JSONstringify(d, 0)
    IN IF setItemThrows(text)
       THEN [item |-> storage, saved |-> "failed", logged |-> TRUE]
       ELSE [item |-> Item(text), saved |-> "ok", logged |-> FALSE]

\* renderDialogues throws a TypeError on .length of null, on .map of a
\* value that is not an array, and on .role of a null element.
renderThrows(d) ==
    \/ ThrowsOnAccess(d)
    \/ /\ ~LengthIsZero(d)
       /\ \/ ~IsArray(d)
          \/ \E i \in 1..Len(Items(d)) : ThrowsOnAccess(Items(d)[i])

(***************************************************************************)
(* The actions: one per handler.  A handler's local (the value a call      *)
(* returned) is bound with \E x \in {call} so that the call is evaluated    *)
(* once, as the handler makes it once.                                      *)
(***************************************************************************)
Init ==
    /\ page = "loading"
    /\ dialogues = Undefined
    /\ storage = NoItem
    /\ now = StartTime
    /\ readers = 0
    /\ outcome = Outcome("none", FALSE, NoMessage, "none", FALSE, <<>>)

\* A page load: the DOMContentLoaded listener runs the constructor.  The
\* readers of the page before are gone with it.
DOMContentLoaded ==
    \E loaded \in {loadDialogues(storage)} :
    \E threw \in {renderThrows(loaded.value)} :
       /\ dialogues' = loaded.value
       /\ page' = IF threw THEN "constructorThrew" ELSE "ready"
       /\ readers' = 0
       /\ outcome' = Outcome("constructor", threw, NoMessage, "none", loaded.logged, <<>>)
       /\ UNCHANGED <<storage, now>>

\* The clock advances by a millisecond.
Tick ==
    /\ now < MaxTime
    /\ now' = now + 1
    /\ UNCHANGED <<page, dialogues, storage, readers, outcome>>

\* A record that keeps the think text whatever the role.
newDialogue_keepsThink(role, dialogueText, thinkText) ==
    Dialogue(NumberToString(now), role, Trim(dialogueText), Trim(thinkText),
             ToLocaleString(now))

\* The record addDialogue builds.
newDialogue(role, dialogueText, thinkText) ==
    Dialogue(NumberToString(now), role, Trim(dialogueText),
             IF role = Responder THEN Trim(thinkText) ELSE <<>>,
             ToLocaleString(now))

addDialogue(role, dialogueText, thinkText) ==
    /\ page # "loading"
    /\ UNCHANGED <<page, now, readers>>
    /\ IF Trim(dialogueText) = <<>>
       THEN /\ outcome' = Outcome("addDialogue", FALSE,
                                  Message("enter the dialogue", "error"), "none", FALSE, <<>>)
            /\ UNCHANGED <<dialogues, storage>>
       ELSE IF ~IsArray(dialogues)
       THEN \* this.dialogues.push is not callable
            /\ outcome' = Outcome("addDialogue", TRUE, NoMessage, "none", FALSE, <<>>)
            /\ UNCHANGED <<dialogues, storage>>
       ELSE /\ Len(Items(dialogues)) < MaxLen
            /\ \E d \in {Arr(Append(Items(dialogues),
                                      newDialogue(role, dialogueText, thinkText)))} :
               \E s \in {saveDialogues(d)} :
                  /\ dialogues' = d
                  /\ storage' = s.item
                  /\ outcome' = IF renderThrows(d)
                                THEN Outcome("addDialogue", TRUE, NoMessage, s.saved, s.logged, <<>>)
                                ELSE Outcome("addDialogue", FALSE,
                                             Message("dialogue added", "success"),
                                             s.saved, s.logged, <<>>)

\* The roles of the role buttons of the modal window; 'user' is also the
\* role taken when no button is active.
ModalRoles == {<<"user">>, Responder}

\* The click on confirmAddBtn, role being the role of the active button:
\* the same test of the text as in addDialogue, then addDialogue, whose
\* success message is shown a second time.  updateThinkInputVisibility has
\* emptied the think input for a role that is not responder.
handleModalAddDialogue(role, dialogueText, thinkText) ==
    addDialogue(role, dialogueText, IF role = Responder THEN thinkText ELSE <<>>)

\* An id as the delete button of a rendered record passes it.
IdText(v) ==
    CASE v.kind \in {"string", "number"} -> v.val
      [] OTHER -> <<v.kind>>

UnknownId == <<"zz">>

DeleteIds ==
    {UnknownId} \cup
    (IF IsArray(dialogues)
     THEN {IdText(Get(Items(dialogues)[i], Kid)) :
              i \in {j \in 1..Len(Items(dialogues)) : ~ThrowsOnAccess(Items(dialogues)[j])}}
     ELSE {})

\* deleteDialogue is called through window.dialogueManager by the button
\* of a rendered record; confirmed is the answer to confirm().
deleteDialogue(id, confirmed) ==
    /\ page = "ready"
    /\ UNCHANGED <<page, now, readers>>
    /\ IF ~confirmed
       THEN /\ outcome' = Outcome("deleteDialogue", FALSE, NoMessage, "none", FALSE, <<>>)
            /\ UNCHANGED <<dialogues, storage>>
       ELSE IF \/ ~IsArray(dialogues)
               \/ \E i \in 1..Len(Items(dialogues)) : ThrowsOnAccess(Items(dialogues)[i])
       THEN /\ outcome' = Outcome("deleteDialogue", TRUE, NoMessage, "none", FALSE, <<>>)
            /\ UNCHANGED <<dialogues, storage>>
       ELSE LET Keep(e) == Get(e, Kid) # Str(id)
            IN \E d \in {Arr(SelectSeq(Items(dialogues), Keep))} :
               \E s \in {saveDialogues(d)} :
                  /\ dialogues' = d
                  /\ storage' = s.item
                  /\ outcome' = Outcome("deleteDialogue", FALSE,
                                        Message("dialogue deleted", "success"),
                                        s.saved, s.logged, <<>>)

\* An exportData that writes the list as the property of an object.
exportData_wrapped ==
    /\ page # "loading"
    /\ UNCHANGED <<page, dialogues, storage, now, readers>>
    /\ outcome' =
         IF ThrowsOnAccess(dialogues)
         THEN Outcome("exportData", TRUE, NoMessage, "none", FALSE, <<>>)
         ELSE IF LengthIsZero(dialogues)
         THEN Outcome("exportData", FALSE, Message("no data to export", "error"),
                      "none", FALSE, <<>>)
         ELSE Outcome("exportData", FALSE, Message("data exported", "success"),
                      "none", FALSE,
                      JSONstringify(Obj(<< <<<<"dialogues">>, dialogues>> >>), 2))

exportData ==
    /\ page # "loading"
    /\ UNCHANGED <<page, dialogues, storage, now, readers>>
    /\ outcome' =
         IF ThrowsOnAccess(dialogues)
         THEN Outcome("exportData", TRUE, NoMessage, "none", FALSE, <<>>)
         ELSE IF LengthIsZero(dialogues)
         THEN Outcome("exportData", FALSE, Message("no data to export", "error"),
                      "none", FALSE, <<>>)
         ELSE Outcome("exportData", FALSE, Message("data exported", "success"),
                      "none", FALSE, JSONstringify(dialogues, 2))

\* The change listener of the file input, the user having selected file f:
\* a file of another type is refused, a JSON file gets a FileReader.  The
\* readers are counted and a reader delivers the text of its file in
\* readerOnload only, so which JSON file each reader reads is chosen there.
handleFileImport(f) ==
    /\ page # "loading"
    /\ UNCHANGED <<page, dialogues, storage, now>>
    /\ IF Files[f].type # JsonType
       THEN /\ outcome' = Outcome("handleFileImport", FALSE,
                                  Message("select a JSON file", "error"), "none", FALSE, <<>>)
            /\ UNCHANGED readers
       ELSE /\ readers < MaxReaders
            /\ readers' = readers + 1
            /\ outcome' = Outcome("handleFileImport", FALSE, NoMessage, "none", FALSE, <<>>)

\* A check of the structure that leaves out the dialogue.
isValidItem_noDialogue(item) ==
    /\ Truthy(item)
    /\ TypeOf(Get(item, Kid)) = "string"
    /\ TypeOf(Get(item, Krole)) = "string"
    /\ TypeOf(Get(item, Ktimestamp)) = "string"

\* The check of the structure of one imported item.
isValidItem(item) ==
    /\ Truthy(item)
    /\ TypeOf(Get(item, Kid)) = "string"
    /\ TypeOf(Get(item, Krole)) = "string"
    /\ TypeOf(Get(item, Kdialogue)) = "string"
    /\ TypeOf(Get(item, Ktimestamp)) = "string"

\* A set of existing ids that misses the first record of the list.
existingIds_butFirst(d) == {Get(Items(d)[i], Kid) : i \in 2..Len(Items(d))}

\* new Set(this.dialogues.map(d => d.id)) for a list d of objects.
existingIds(d) == {Get(Items(d)[i], Kid) : i \in 1..Len(Items(d))}

\* What the body of reader.onload does given this.dialogues and the result
\* of JSON.parse on the text of the file: the statement that ends it and
\* the items to add.
importResult(d, parsed) ==
    LET importedData == parsed.value
    IN IF ~parsed.ok THEN [end |-> "caught", new |-> <<>>]
       ELSE IF ~IsArray(importedData) THEN [end |-> "caught", new |-> <<>>]
       ELSE IF \E i \in 1..Len(Items(importedData)) : ~isValidItem(Items(importedData)[i])
       THEN [end |-> "caught", new |-> <<>>]
       ELSE IF \/ ~IsArray(d)
               \/ \E i \in 1..Len(Items(d)) : ThrowsOnAccess(Items(d)[i])
       THEN \* this.dialogues.map(d => d.id) throws inside the try
            [end |-> "caught", new |-> <<>>]
       ELSE LET IsNew(item) == Get(item, Kid) \notin existingIds(d)
                newDialogues == SelectSeq(Items(importedData), IsNew)
            IN IF newDialogues = <<>>
               THEN [end |-> "nothing new", new |-> <<>>]
               ELSE [end |-> "imported", new |-> newDialogues]

\* An unshift that adds the items at the end, as push does.
unshift_atEnd(items, new) == items \o new

\* Array.prototype.unshift(...new): the items of the array after the call.
unshift(items, new) == new \o items

\* reader.onload of a reader, which has read file f.
readerOnload(f) ==
    /\ readers > 0
    /\ Files[f].type = JsonType
    /\ readers' = readers - 1
    /\ UNCHANGED <<page, now>>
    /\ \E r \in {importResult(dialogues, FileParsed[f])} :
          CASE r.end = "caught" ->
                 /\ outcome' = Outcome("onload", FALSE, Message("import failed", "error"),
                                       "none", TRUE, <<>>)
                 /\ UNCHANGED <<dialogues, storage>>
            [] r.end = "nothing new" ->
                 /\ outcome' = Outcome("onload", FALSE, Message("nothing new to import", "info"),
                                       "none", FALSE, <<>>)
                 /\ UNCHANGED <<dialogues, storage>>
            [] r.end = "imported" ->
                 /\ Len(r.new) + Len(Items(dialogues)) <= MaxLen
                 /\ \E d \in {Arr(unshift(Items(dialogues), r.new))} :
                    \E s \in {saveDialogues(d)} :
                       /\ dialogues' = d
                       /\ storage' = s.item
                       /\ outcome' = Outcome("onload", FALSE,
                                             Message("dialogues imported", "success"),
                                             s.saved, s.logged, <<>>)

\* reader.onerror of one of the readers.
readerOnerror ==
    /\ readers > 0
    /\ readers' = readers - 1
    /\ outcome' = Outcome("onerror", FALSE, Message("file read failed", "error"),
                          "none", FALSE, <<>>)
    /\ UNCHANGED <<page, dialogues, storage, now>>

\* A clearAllData without the check for an empty list.
clearAllData_noGuard(confirmed) ==
    /\ page # "loading"
    /\ UNCHANGED <<page, now, readers>>
    /\ IF ThrowsOnAccess(dialogues)
       THEN /\ outcome' = Outcome("clearAllData", TRUE, NoMessage, "none", FALSE, <<>>)
            /\ UNCHANGED <<dialogues, storage>>
       ELSE IF ~confirmed
       THEN /\ outcome' = Outcome("clearAllData", FALSE, NoMessage, "none", FALSE, <<>>)
            /\ UNCHANGED <<dialogues, storage>>
       ELSE \E s \in {saveDialogues(Arr(<<>>))} :
               /\ dialogues' = Arr(<<>>)
               /\ storage' = s.item
               /\ outcome' = Outcome("clearAllData", FALSE, Message("all data cleared", "success"),
                                     s.saved, s.logged, <<>>)

\* A clearAllData that does not look at the answer to confirm().
clearAllData_unconfirmed(confirmed) ==
    /\ page # "loading"
    /\ UNCHANGED <<page, now, readers>>
    /\ IF ThrowsOnAccess(dialogues)
       THEN /\ outcome' = Outcome("clearAllData", TRUE, NoMessage, "none", FALSE, <<>>)
            /\ UNCHANGED <<dialogues, storage>>
       ELSE IF LengthIsZero(dialogues)
       THEN /\ outcome' = Outcome("clearAllData", FALSE, Message("no data to clear", "error"),
                                  "none", FALSE, <<>>)
            /\ UNCHANGED <<dialogues, storage>>
       ELSE \E s \in {saveDialogues(Arr(<<>>))} :
               /\ dialogues' = Arr(<<>>)
               /\ storage' = s.item
               /\ outcome' = Outcome("clearAllData", FALSE, Message("all data cleared", "success"),
                                     s.saved, s.logged, <<>>)

\* confirmed is the answer to confirm().
clearAllData(confirmed) ==
    /\ page # "loading"
    /\ UNCHANGED <<page, now, readers>>
    /\ IF ThrowsOnAccess(dialogues)
       THEN /\ outcome' = Outcome("clearAllData", TRUE, NoMessage, "none", FALSE, <<>>)
            /\ UNCHANGED <<dialogues, storage>>
       ELSE IF LengthIsZero(dialogues)
       THEN /\ outcome' = Outcome("clearAllData", FALSE, Message("no data to clear", "error"),
                                  "none", FALSE, <<>>)
            /\ UNCHANGED <<dialogues, storage>>
       ELSE IF ~confirmed
       THEN /\ outcome' = Outcome("clearAllData", FALSE, NoMessage, "none", FALSE, <<>>)
            /\ UNCHANGED <<dialogues, storage>>
       ELSE \E s \in {saveDialogues(Arr(<<>>))} :
               /\ dialogues' = Arr(<<>>)
               /\ storage' = s.item
               /\ outcome' = Outcome("clearAllData", FALSE, Message("all data cleared", "success"),
                                     s.saved, s.logged, <<>>)

AddDialogue == \E role \in Roles, dialogueText \in DialogueTexts, thinkText \in ThinkTexts :
                   addDialogue(role, dialogueText, thinkText)
HandleModalAddDialogue ==
    \E role \in ModalRoles, dialogueText \in DialogueTexts, thinkText \in ThinkTexts :
        handleModalAddDialogue(role, dialogueText, thinkText)
DeleteDialogue == \E id \in DeleteIds, confirmed \in BOOLEAN : deleteDialogue(id, confirmed)
HandleFileImport == \E f \in FileNames : handleFileImport(f)
ReaderOnload == \E f \in FileNames : readerOnload(f)
ClearAllData == \E confirmed \in BOOLEAN : clearAllData(confirmed)

Next ==
    \/ DOMContentLoaded
    \/ Tick
    \/ AddDialogue
    \/ DeleteDialogue
    \/ exportData
    \/ HandleFileImport
    \/ ReaderOnload
    \/ readerOnerror
    \/ ClearAllData

\* From a browser that holds no item under the key.
Spec == Init /\ [][Next]_vars

\* From a browser that holds any of StoredItems under the key.
InitStored ==
    /\ page = "loading"
    /\ dialogues = Undefined
    /\ storage \in StoredItems
    /\ now = StartTime
    /\ readers = 0
    /\ outcome = Outcome("none", FALSE, NoMessage, "none", FALSE, <<>>)

SpecStored == InitStored /\ [][Next]_vars

\* The page is loaded and records are added only: by calls of addDialogue
\* with the roles its comment names and by the modal window with the roles
\* of its buttons.
NextAppend ==
    \/ DOMContentLoaded
    \/ Tick
    \/ AddDialogue
    \/ HandleModalAddDialogue

SpecAppend == Init /\ [][NextAppend]_vars

\* Every handler but addDialogue: the records of the list come from files.
NextImport ==
    \/ DOMContentLoaded
    \/ DeleteDialogue
    \/ exportData
    \/ HandleFileImport
    \/ ReaderOnload
    \/ readerOnerror
    \/ ClearAllData

SpecImport == Init /\ [][NextImport]_vars

(***************************************************************************)
(* The properties.                                                          *)
(***************************************************************************)
\* The id of the i-th record of the list.
IdAt(i) == Get(Items(dialogues)[i], Kid)

\* The handlers that change the list.
Mutating == {"addDialogue", "deleteDialogue", "onload", "clearAllData"}

\* The stored item is the serialization of the list.
Persisted == storage = Item(JSONstringify(dialogues, 0))

\* C1: whatever the sequence of addDialogue calls, and also when several
\* are made within one millisecond, no two records of the list have the
\* same id.
C1_AppendedIdsDiffer ==
    IsArray(dialogues) =>
        \A i, j \in 1..Len(Items(dialogues)) : i < j => IdAt(i) # IdAt(j)

\* C2: from an empty store, after any sequence of addDialogue,
\* deleteDialogue, import and clearAllData, the list holds as many
\* different ids as records.
C2_NoTwoRecordsShareId ==
    IsArray(dialogues) =>
        Cardinality({IdAt(i) : i \in 1..Len(Items(dialogues))}) = Len(Items(dialogues))

\* C3: after addDialogue, deleteDialogue, an import that added records or
\* clearAllData of a list that had records, when the write to storage did
\* not fail, the stored item is the serialization of the list and
\* loadDialogues returns the list.
C3_PersistedAfterMutation ==
    (/\ outcome.op \in Mutating
     /\ outcome.message.type = "success"
     /\ outcome.saved # "failed")
    => /\ outcome.saved = "ok"
       /\ Persisted
       /\ loadDialogues(storage).value = dialogues

\* A successful import of two records has been written and can be read back.
C3_Witness ==
    /\ outcome.op = "onload"
    /\ outcome.saved = "ok"
    /\ Len(Items(dialogues)) = 2
    /\ loadDialogues(storage).value = dialogues

\* C4: a handler whose write to storage failed does not report success
\* while the list and the stored item differ.
C4_FailedWriteIsReported ==
    ~(/\ outcome.saved = "failed"
      /\ outcome.message.type = "success"
      /\ ~Persisted)

\* The files whose value is not a list of objects with id, role, dialogue
\* and timestamp as text, and the files whose value is one.
MalformedFiles == {"partial", "numberid", "nullitem", "single"}
BatchFiles == {"ab", "aa", "empty"}

\* The records of the batch in file f.
Batch(f) == FileValues[f].val

\* C5: an import of a value that is not a list, or has an item that is not
\* an object with id, role, dialogue and timestamp as text, is rejected as
\* an error and changes neither the list nor the stored item.
C5_MalformedBatchRejected ==
    [][\A f \in MalformedFiles :
          readerOnload(f) =>
              /\ UNCHANGED <<dialogues, storage>>
              /\ outcome'.message.type = "error"]_vars

\* A rejected import has left a list of records and its stored item alone.
C5_Witness ==
    /\ outcome.op = "onload"
    /\ outcome.message = Message("import failed", "error")
    /\ IsArray(dialogues) /\ Len(Items(dialogues)) >= 1
    /\ Persisted

\* The records of the list d with the id v.
WithId(d, v) == {i \in 1..Len(Items(d)) : Get(Items(d)[i], Kid) = v}

\* Every id of the batch in file f is the id of a record of the list.
AllIdsHeld(f) ==
    \A i \in 1..Len(Batch(f)) : WithId(dialogues, Get(Batch(f)[i], Kid)) # {}

\* C6: an import adds no record with an id the list holds already; when
\* the list holds the id of every record of the batch, nothing is added,
\* the message is informational, and the list and the stored item stay as
\* they are without a call of saveDialogues.
C6_ExistingIdsDropped ==
    [][\A f \in BatchFiles :
          (IsArray(dialogues) /\ readerOnload(f)) =>
              /\ \A j \in 1..Len(Items(dialogues)) :
                     Cardinality(WithId(dialogues', IdAt(j)))
                         = Cardinality(WithId(dialogues, IdAt(j)))
              /\ AllIdsHeld(f) =>
                     /\ UNCHANGED <<dialogues, storage>>
                     /\ outcome'.message.type = "info"
                     /\ outcome'.saved = "none"]_vars

\* An import found nothing new in a list that holds records.
C6_Witness ==
    /\ outcome.op = "onload"
    /\ outcome.message = Message("nothing new to import", "info")
    /\ IsArray(dialogues) /\ Len(Items(dialogues)) >= 2

\* The records of the batch in file f whose id the list does not hold.
Survivors(f) ==
    LET IsSurvivor(item) == WithId(dialogues, Get(item, Kid)) = {}
    IN SelectSeq(Batch(f), IsSurvivor)

\* C7: an import with records whose id is new makes the list these
\* records, in the order of the batch, followed by the list as it was, and
\* then calls saveDialogues, which stores the new list unless the write
\* fails.
C7_SurvivorsPrepended ==
    [][\A f \in BatchFiles :
          (IsArray(dialogues) /\ readerOnload(f) /\ Survivors(f) # <<>>) =>
              /\ Items(dialogues') = Survivors(f) \o Items(dialogues)
              /\ outcome'.message.type = "success"
              /\ outcome'.saved \in {"ok", "failed"}
              /\ outcome'.saved = "ok" => storage' = Item(JSONstringify(dialogues', 0))]_vars

\* An import has put two records before the one the list had.
C7_Witness ==
    /\ outcome.op = "onload"
    /\ outcome.message.type = "success"
    /\ Len(Items(dialogues)) = 3
    /\ IdAt(1) # IdAt(2)
    /\ Get(Items(dialogues)[3], Kid) \notin {Str(<<"a">>), Str(<<"b">>)}

\* A record as the data model has it: an object with the five texts.
IsTurnRecord(v) ==
    /\ v.kind = "object"
    /\ \A k \in {Kid, Krole, Kdialogue, Kthink, Ktimestamp} : Get(v, k).kind = "string"

IsTurnRecordList(v) ==
    IsArray(v) /\ \A i \in 1..Len(Items(v)) : IsTurnRecord(Items(v)[i])

\* C8: the document exportData writes for a list of records, parsed and
\* imported into an empty list, gives the list: the same records in the
\* same order.
C8_ExportImportRoundTrip ==
    (/\ outcome.op = "exportData"
     /\ outcome.message.type = "success"
     /\ IsTurnRecordList(dialogues))
    => LET r == importResult(Arr(<<>>), JSONparse(outcome.document))
       IN /\ r.end = "imported"
          /\ unshift(<<>>, r.new) = Items(dialogues)

\* A list of two records or more has been exported.
C8_Witness ==
    /\ outcome.op = "exportData"
    /\ outcome.message.type = "success"
    /\ IsTurnRecordList(dialogues)
    /\ Len(Items(dialogues)) >= 2

\* C9: of an empty list, exportData makes no document and reports an
\* error; clearAllData reports that there is nothing to clear, does not
\* call saveDialogues and leaves the stored item as it is.
C9_EmptyGuard ==
    [][dialogues = Arr(<<>>) =>
          /\ exportData =>
                 /\ outcome'.document = <<>>
                 /\ outcome'.message = Message("no data to export", "error")
          /\ \A c \in BOOLEAN :
                 clearAllData(c) =>
                     /\ UNCHANGED <<dialogues, storage>>
                     /\ outcome'.saved = "none"
                     /\ outcome'.message = Message("no data to clear", "error")]_vars

\* clearAllData found the list empty, and no item has ever been stored.
C9_Witness ==
    /\ outcome.op = "clearAllData"
    /\ outcome.message = Message("no data to clear", "error")
    /\ dialogues = Arr(<<>>)
    /\ storage = NoItem

\* The stored item parses as a list of records.
SnapshotIsRecordList(st) ==
    /\ st.present
    /\ JSONparse(st.text).ok
    /\ IsTurnRecordList(JSONparse(st.text).value)

\* C10: the constructor, finding no item or an item that does not parse as
\* a list of records, leaves an empty list and returns without throwing.
C10_HydrateDegradesToEmpty ==
    (outcome.op = "constructor" /\ ~SnapshotIsRecordList(storage))
    => /\ dialogues = Arr(<<>>)
       /\ ~outcome.threw
       /\ page = "ready"

\* C11: deleteDialogue with an id that no record of the list has leaves
\* the list as it was and does not report the success of a deletion.
C11_UnknownIdReportedAsNoOp ==
    [][\A id \in DeleteIds :
          (/\ IsArray(dialogues)
           /\ WithId(dialogues, Str(id)) = {}
           /\ deleteDialogue(id, TRUE)) =>
              /\ Items(dialogues') = Items(dialogues)
              /\ outcome'.message.type # "success"]_vars

\* C12: whatever the stored item, the input and the result of the write to
\* storage, no handler and no constructor ends in an exception that
\* nothing catches.
C12_NothingThrowsUncaught == ~outcome.threw

\* The text of property k of the i-th record of the list.
TextAt(i, k) == Get(Items(dialogues)[i], k).val

\* C13: no record of the list, appended or imported, has a dialogue that
\* is empty or white space only.
C13_NoBlankDialogue ==
    IsTurnRecordList(dialogues) =>
        \A i \in 1..Len(Items(dialogues)) : Trim(TextAt(i, Kdialogue)) # <<>>

\* C14: a record of the list, appended or imported, has a think text that
\* is not empty only when its role is responder.
C14_ThinkOnlyForResponder ==
    IsTurnRecordList(dialogues) =>
        \A i \in 1..Len(Items(dialogues)) :
            TextAt(i, Kthink) # <<>> => TextAt(i, Krole) = Responder

\* The texts of DialogueTexts with nothing but white space.
BlankTexts == {t \in DialogueTexts : \A i \in 1..Len(t) : t[i] = Space}

\* C15: addDialogue with a text that is empty or white space only reports
\* the error of an empty dialogue, builds no record, does not call
\* saveDialogues and leaves the list and the stored item as they are.
C15_BlankAppendRejected ==
    [][\A role \in Roles, dialogueText \in BlankTexts, thinkText \in ThinkTexts :
          addDialogue(role, dialogueText, thinkText) =>
              /\ UNCHANGED <<dialogues, storage>>
              /\ outcome'.saved = "none"
              /\ outcome'.message = Message("enter the dialogue", "error")]_vars

\* A blank text was refused by a list that holds records and is stored.
C15_Witness ==
    /\ outcome.op = "addDialogue"
    /\ outcome.message = Message("enter the dialogue", "error")
    /\ IsArray(dialogues) /\ Len(Items(dialogues)) >= 1
    /\ Persisted

\* s is t without the white space at its two ends.
IsTrimOf(s, t) ==
    /\ s = <<>> \/ (Head(s) # Space /\ s[Len(s)] # Space)
    /\ \E i, j \in 0..Len(t) :
           /\ i + Len(s) + j = Len(t)
           /\ \A k \in 1..i : t[k] = Space
           /\ \A k \in (Len(t) - j + 1)..Len(t) : t[k] = Space
           /\ SubSeq(t, i + 1, i + Len(s)) = s

\* C16: addDialogue with a text that is not blank puts one record after
\* the records of the list, which stay as they are and in their order; the
\* record has the role, the text without the white space at its ends, and
\* as think the think text without the white space at its ends for the
\* role responder and the empty text for every other role.
C16_AppendAddsOneAtEnd ==
    [][\A role \in Roles \cup ModalRoles, dialogueText \in DialogueTexts \ BlankTexts,
         thinkText \in ThinkTexts :
          (IsArray(dialogues) /\ addDialogue(role, dialogueText, thinkText)) =>
              LET n == Len(Items(dialogues))
                  new == Items(dialogues')[n + 1]
              IN /\ Len(Items(dialogues')) = n + 1
                 /\ SubSeq(Items(dialogues'), 1, n) = Items(dialogues)
                 /\ Get(new, Krole) = Str(role)
                 /\ IsTrimOf(Get(new, Kdialogue).val, dialogueText)
                 /\ IF role = Responder
                    THEN IsTrimOf(Get(new, Kthink).val, thinkText)
                    ELSE Get(new, Kthink) = Str(<<>>)
                 /\ outcome'.message = Message("dialogue added", "success")]_vars

\* A record of a role other than responder was added, without think text,
\* after a responder's record that has one.
C16_Witness ==
    /\ outcome.op = "addDialogue"
    /\ outcome.message.type = "success"
    /\ IsArray(dialogues) /\ Len(Items(dialogues)) = 3
    /\ TextAt(2, Krole) = Responder /\ TextAt(2, Kthink) = <<"why">>
    /\ TextAt(3, Krole) = <<"user">> /\ TextAt(3, Kthink) = <<>>
    /\ TextAt(3, Kdialogue) = <<"hi">>

\* The list d without its i-th record.
Without(d, i) == SubSeq(Items(d), 1, i - 1) \o SubSeq(Items(d), i + 1, Len(Items(d)))

\* C17: a confirmed deleteDialogue with the id of a record of the list
\* takes one record, which has that id, out of the list, leaves the others
\* in their order, and stores the result.
C17_DeleteRemovesOne ==
    [][\A id \in DeleteIds :
          (/\ IsArray(dialogues)
           /\ WithId(dialogues, Str(id)) # {}
           /\ deleteDialogue(id, TRUE)) =>
              /\ Len(Items(dialogues')) = Len(Items(dialogues)) - 1
              /\ \E i \in WithId(dialogues, Str(id)) :
                     Items(dialogues') = Without(dialogues, i)
              /\ storage' = Item(JSONstringify(dialogues', 0))]_vars

\* C18: a handler is one task of the event loop, and the tasks of the
\* user's actions and of the readers' callbacks come in any order; the
\* task that changes the list is the task that calls saveDialogues on the
\* changed list, and the selection of a file, whose read ends in a later
\* task, changes neither the list nor the stored item.  So between two
\* tasks the list is never changed without its write attempted.
C18_ChangeAndWriteInOneTask ==
    [][/\ (dialogues' # dialogues /\ outcome'.op # "constructor") =>
              /\ outcome'.saved \in {"ok", "failed"}
              /\ outcome'.saved = "ok" => storage' = Item(JSONstringify(dialogues', 0))
       /\ readers' > readers => UNCHANGED <<dialogues, storage>>]_vars

\* A record was added and stored while the read of a file was under way.
C18_Witness ==
    /\ readers > 0
    /\ outcome.op = "addDialogue"
    /\ outcome.saved = "ok"
    /\ Len(Items(dialogues)) >= 1
    /\ Persisted

\* The number of records of the list d with the id of item.
Held(d, item) == Cardinality(WithId(d, Get(item, Kid)))

\* C19: when the read of a batch ends while another read is under way,
\* whatever was selected and whatever was done to the list in between, an
\* id of the batch that the list does not hold is held once afterwards,
\* and an id that the list holds is held as often as before.
C19_OverlappingReadsAddIdOnce ==
    [][\A f \in BatchFiles :
          (IsArray(dialogues) /\ readers >= 2 /\ readerOnload(f)) =>
              \A i \in 1..Len(Batch(f)) :
                  Held(dialogues', Batch(f)[i])
                      = IF Held(dialogues, Batch(f)[i]) = 0 THEN 1
                        ELSE Held(dialogues, Batch(f)[i])]_vars

\* What a handler that did nothing leaves: the list and the stored item
\* as they were, no call of saveDialogues, no success message.
NothingDone ==
    /\ UNCHANGED <<dialogues, storage>>
    /\ outcome'.saved = "none"
    /\ outcome'.message.type # "success"

\* C20: deleteDialogue and clearAllData do nothing when the user answers
\* no to confirm().
C20_DeclinedConfirmChangesNothing ==
    [][/\ \A id \in DeleteIds : deleteDialogue(id, FALSE) => NothingDone
       /\ clearAllData(FALSE) => NothingDone]_vars

\* The user declined to clear a list that holds records and is stored.
C20_Witness ==
    /\ outcome = Outcome("clearAllData", FALSE, NoMessage, "none", FALSE, <<>>)
    /\ IsArray(dialogues) /\ Len(Items(dialogues)) >= 2
    /\ Persisted

TypeOK == page \in {"loading", "ready", "constructorThrew"}

====
